---- MODULE Spec2Model ----
(***************************************************************************)
(* Model of src/wordInGemini.py: a batch script that extracts words from a *)
(* text file, filters them against a database, queries a model endpoint    *)
(* per word behind a retry loop, and accumulates SQL INSERT statements     *)
(* that are flushed to a file at the end.                                  *)
(*                                                                         *)
(* Text is modelled as a sequence of one-character strings.  JSON values   *)
(* are tagged records: [ty |-> "null"], [ty |-> "num", n |-> 0..9],        *)
(* [ty |-> "str", s |-> chars], [ty |-> "list", l |-> items] and           *)
(* [ty |-> "dict", d |-> record of key |-> value].  Python's None is the   *)
(* same value as JSON null, as it is after json.loads.                     *)
(***************************************************************************)
EXTENDS Naturals, Sequences, FiniteSets, TLC

\* ------------------------------------------------------------------------
\* Program constants
\* ------------------------------------------------------------------------
MAX_RETRIES == 5
RETRY_DELAY_SECONDS == 5
\* the literals of the pause condition "(i + 1) % 10 == 0 and len(...) > 10"
PAUSE_EVERY == 10
PAUSE_MIN_LEN == 10

\* ------------------------------------------------------------------------
\* Bounds of the model
\* ------------------------------------------------------------------------
\* tokens of a short text file
MaxTokens == 2
\* length of the longest word list processed (long runs)
MaxLongLen == 21
\* length of the strings given to escape_sql_string on its own
MaxStrLen == 4
\* length of the word lists given to get_new_words_not_in_db on its own
MaxFilterLen == 4
\* translations per response, examples per translation (extract on its own)
MaxTrans == 2
MaxExamples == 2

\* ------------------------------------------------------------------------
\* Text helpers
\* ------------------------------------------------------------------------
None == [ty |-> "null"]
Str(s) == [ty |-> "str", s |-> s]
Num(n) == [ty |-> "num", n |-> n]
List(l) == [ty |-> "list", l |-> l]
Dict(d) == [ty |-> "dict", d |-> d]

Range(s) == {s[k] : k \in 1..Len(s)}

RECURSIVE Concat(_)
\* "".join(seq of texts)
Concat(ss) == IF ss = <<>> THEN <<>> ELSE Head(ss) \o Concat(Tail(ss))

RECURSIVE Join(_, _)
\* sep.join(seq of texts)
Join(sep, ss) ==
    IF ss = <<>> THEN <<>>
    ELSE IF Len(ss) = 1 THEN ss[1]
    ELSE ss[1] \o sep \o Join(sep, Tail(ss))

Digits == <<"0", "1", "2", "3", "4", "5", "6", "7", "8", "9">>

\* str.lower() on the letters of the model's alphabet
LowerChar(c) ==
    CASE c = "A" -> "a"
      [] c = "B" -> "b"
      [] OTHER -> c
Lower(s) == [k \in 1..Len(s) |-> LowerChar(s[k])]

\* the order of characters (code points) among those the model uses
CharOrder == <<" ", "'", "/", "0", "1", "2", "3", "4", "5", "6", "7", "8", "9",
               "<", ">", "A", "B", "_", "a", "b", "d", "e", "f", "i", "m", "n",
               "o", "r", "v", "w", "|">>
CharRank(c) == CHOOSE k \in 1..Len(CharOrder) : CharOrder[k] = c

RECURSIVE LexLess(_, _)
\* Python's s < t on strings
LexLess(s, t) ==
    IF t = <<>> THEN FALSE
    ELSE IF s = <<>> THEN TRUE
    ELSE IF s[1] = t[1] THEN LexLess(Tail(s), Tail(t))
    ELSE CharRank(s[1]) < CharRank(t[1])

RECURSIVE SortedSeq(_)
\* sorted(set): the elements of a finite set of texts in ascending order
SortedSeq(S) ==
    IF S = {} THEN <<>>
    ELSE LET m == CHOOSE x \in S : \A y \in S \ {x} : LexLess(x, y)
         IN <<m>> \o SortedSeq(S \ {m})

\* str.strip() leaves nothing: the text is empty or whitespace only
IsBlank(s) == \A k \in 1..Len(s) : s[k] = " "

\* pattern in text (substring)
IsSubstring(p, s) ==
    \E k \in 0..(Len(s) - Len(p)) : SubSeq(s, k + 1, k + Len(p)) = p

\* ------------------------------------------------------------------------
\* transform_example_text
\* ------------------------------------------------------------------------
\* index of the first "|" of s at or after position k, 0 when there is none
RECURSIVE NextBar(_, _)
NextBar(s, k) ==
    IF k > Len(s) THEN 0
    ELSE IF s[k] = "|" THEN k
    ELSE NextBar(s, k + 1)

RECURSIVE EmSub(_, _)
\* re.sub(r'\|([^|]+)\|', r'<em>\1</em>', s) scanning from position k
EmSub(s, k) ==
    IF k > Len(s) THEN <<>>
    ELSE IF s[k] # "|" THEN <<s[k]>> \o EmSub(s, k + 1)
    ELSE LET j == NextBar(s, k + 1)
         IN IF j > k + 1
            THEN <<"<", "e", "m", ">">> \o SubSeq(s, k + 1, j - 1)
                 \o <<"<", "/", "e", "m", ">">> \o EmSub(s, j + 1)
            ELSE <<"|">> \o EmSub(s, k + 1)

\* text is None -> None; a string -> the substitution
transform_example_text(text) ==
    IF text.ty = "null" THEN None ELSE Str(EmSub(text.s, 1))

\* ------------------------------------------------------------------------
\* Python objects decoded from JSON
\* ------------------------------------------------------------------------
\* the keys the model's JSON objects use, in the order they are written in
\* a response (json.loads keeps, and json.dumps writes, insertion order)
KeyOrder == <<"word_info", "translations", "base_form", "additional_info",
              "type", "usage", "meaning", "additionalInfo", "examples",
              "source", "target", "n", "v", "x">>
\* the same keys in ascending (code point) order, for sorted()
SortedKeyOrder == <<"additionalInfo", "additional_info", "base_form",
                    "examples", "meaning", "n", "source", "target",
                    "translations", "type", "usage", "v", "word_info", "x">>

Keys(v) == DOMAIN v.d
\* list(d.keys()) and sorted(d.keys()); a key is written as one symbol
KeyList(v) == SelectSeq(KeyOrder, LAMBDA k : k \in Keys(v))
SortedKeyList(v) == SelectSeq(SortedKeyOrder, LAMBDA k : k \in Keys(v))

\* d.get(key, default) and d.get(key)
GetOr(v, key, default) == IF key \in Keys(v) THEN v.d[key] ELSE default
Get(v, key) == GetOr(v, key, None)

\* bool(value)
Truthy(v) ==
    CASE v.ty = "null" -> FALSE
      [] v.ty = "num" -> v.n # 0
      [] v.ty = "str" -> v.s # <<>>
      [] v.ty = "list" -> v.l # <<>>
      [] v.ty = "dict" -> Keys(v) # {}

\* iter(value): a list gives its items, a string its characters, a dict its
\* keys; None and numbers are not iterable (TypeError)
Iterable(v) == v.ty \in {"list", "str", "dict"}
Items(v) ==
    CASE v.ty = "list" -> v.l
      [] v.ty = "str" -> [k \in 1..Len(v.s) |-> Str(<<v.s[k]>>)]
      [] v.ty = "dict" -> LET ks == KeyList(v)
                          IN [k \in 1..Len(ks) |-> Str(<<ks[k]>>)]
      [] OTHER -> <<>>

RECURSIVE JsonDumps(_)
\* json.dumps(value) with the default separators
JsonDumps(v) ==
    CASE v.ty = "null" -> <<"n", "u", "l", "l">>
      [] v.ty = "num" -> <<Digits[v.n + 1]>>
      [] v.ty = "str" -> <<"\"">> \o v.s \o <<"\"">>
      [] v.ty = "list" ->
           <<"[">> \o Join(<<",", " ">>,
                           [k \in 1..Len(v.l) |-> JsonDumps(v.l[k])])
           \o <<"]">>
      [] v.ty = "dict" ->
           LET ks == KeyList(v)
           IN <<"{">>
              \o Join(<<",", " ">>,
                      [k \in 1..Len(ks) |->
                          <<"\"", ks[k], "\"", ":", " ">>
                          \o JsonDumps(v.d[ks[k]])])
              \o <<"}">>

RECURSIVE PyRepr(_)
\* repr(value): a string in single quotes (in double quotes when it holds a
\* single quote; the model's strings hold no double quote), containers with
\* the repr of their parts
PyRepr(v) ==
    CASE v.ty = "null" -> <<"N", "o", "n", "e">>
      [] v.ty = "num" -> <<Digits[v.n + 1]>>
      [] v.ty = "str" -> IF "'" \in Range(v.s)
                         THEN <<"\"">> \o v.s \o <<"\"">>
                         ELSE <<"'">> \o v.s \o <<"'">>
      [] v.ty = "list" ->
           <<"[">> \o Join(<<",", " ">>,
                           [k \in 1..Len(v.l) |-> PyRepr(v.l[k])])
           \o <<"]">>
      [] v.ty = "dict" ->
           LET ks == KeyList(v)
           IN <<"{">>
              \o Join(<<",", " ">>,
                      [k \in 1..Len(ks) |->
                          <<"'", ks[k], "'", ":", " ">>
                          \o PyRepr(v.d[ks[k]])])
              \o <<"}">>

\* str(value)
PyStr(value) == IF value.ty = "str" THEN value.s ELSE PyRepr(value)

\* ------------------------------------------------------------------------
\* escape_sql_string
\* ------------------------------------------------------------------------
RECURSIVE ReplaceQuote(_)
\* s.replace("'", "''")
ReplaceQuote(s) ==
    IF s = <<>> THEN <<>>
    ELSE (IF Head(s) = "'" THEN <<"'", "'">> ELSE <<Head(s)>>)
         \o ReplaceQuote(Tail(s))

RECURSIVE ReplaceQuoteOnce(_)
\* mutant: only the first quote is doubled
ReplaceQuoteOnce(s) ==
    IF s = <<>> THEN <<>>
    ELSE IF Head(s) = "'" THEN <<"'", "'">> \o Tail(s)
    ELSE <<Head(s)>> \o ReplaceQuoteOnce(Tail(s))

escape_sql_string_once(value) ==
    IF value.ty = "null" THEN <<"N", "U", "L", "L">>
    ELSE <<"'">> \o ReplaceQuoteOnce(PyStr(value)) \o <<"'">>

escape_sql_string(value) ==
    IF value.ty = "null" THEN <<"N", "U", "L", "L">>
    ELSE <<"'">> \o ReplaceQuote(PyStr(value)) \o <<"'">>

\* ------------------------------------------------------------------------
\* log_error: the entry appended to the error log
\* ------------------------------------------------------------------------
\* raw_output_data is a decoded object or a Python string (given as Str).
\* The entry is "Word: ..\nReason: ..\n" followed by the parsed data (dict or
\* list), the raw output (any other truthy value) or nothing, and the divider.
\* The indentation json.dumps(indent=2) adds is not modelled.
log_error(word_query, reason, raw_output_data) ==
    [word |-> word_query,
     reason |-> reason,
     data |-> IF raw_output_data.ty \in {"dict", "list"}
              THEN [kind |-> "parsed", text |-> JsonDumps(raw_output_data)]
              ELSE IF Truthy(raw_output_data)
              THEN [kind |-> "raw", text |-> PyStr(raw_output_data)]
              ELSE [kind |-> "none", text |-> <<>>]]

\* ------------------------------------------------------------------------
\* SQL statements
\* ------------------------------------------------------------------------
\* generate_schema_sql(): the PRAGMA, the three CREATE TABLE statements and
\* the three CREATE INDEX statements joined by newlines, then two newlines
\* (each statement's text is written as one symbol)
generate_schema_sql ==
    [kind |-> "schema",
     text |-> Join(<<"\n">>,
                 <<<<"PRAGMA foreign_keys = ON;">>,
                   <<"CREATE TABLE IF NOT EXISTS words (...);">>,
                   <<"CREATE TABLE IF NOT EXISTS word_translations (...);">>,
                   <<"CREATE TABLE IF NOT EXISTS translation_examples (...);">>,
                   <<"CREATE INDEX IF NOT EXISTS idx_words_queried_word ON words(queried_word);">>,
                   <<"CREATE INDEX IF NOT EXISTS idx_word_translations_word_id ON word_translations(word_id);">>,
                   <<"CREATE INDEX IF NOT EXISTS idx_translation_examples_translation_id ON translation_examples(translation_id);">>
                 >>) \o <<"\n", "\n">>]

\* INSERT OR IGNORE INTO words (queried_word, base_form_json, primary_type,
\* info_json) VALUES (...)
WordInsert(w, base_form_json, primary_type, info_json) ==
    [kind |-> "words",
     queried_word |-> escape_sql_string(Str(w)),
     base_form_json |-> escape_sql_string(Str(base_form_json)),
     primary_type |-> escape_sql_string(primary_type),
     info_json |-> escape_sql_string(Str(info_json))]

\* INSERT INTO word_translations (word_id, meaning, additional_info,
\* meta_type) VALUES ((SELECT word_id ... queried_word = w), ...)
TranslationInsert(w, meaning, additional_info, meta_type) ==
    [kind |-> "word_translations",
     queried_word |-> escape_sql_string(Str(w)),
     meaning |-> escape_sql_string(meaning),
     additional_info |-> escape_sql_string(additional_info),
     meta_type |-> escape_sql_string(meta_type)]

\* INSERT INTO translation_examples (translation_id, source_text,
\* target_text) VALUES ((SELECT translation_id ... of the translation), ...)
ExampleInsert(w, meaning, additional_info, meta_type, source, target) ==
    [kind |-> "translation_examples",
     queried_word |-> escape_sql_string(Str(w)),
     meaning |-> escape_sql_string(meaning),
     additional_info |-> escape_sql_string(additional_info),
     meta_type |-> escape_sql_string(meta_type),
     source_text |-> escape_sql_string(source),
     target_text |-> escape_sql_string(target)]

\* the f-strings of lines 150-151, 154, 166-167, 170-176 and 187-188: the
\* text of a statement (a run of literal text is written as one symbol)
WordIdSubquery(stmt) ==
    <<"(SELECT word_id FROM words WHERE queried_word = ">>
    \o stmt.queried_word \o <<")">>
TranslationIdSubquery(stmt) ==
    <<"(SELECT translation_id FROM word_translations WHERE word_id = ">>
    \o WordIdSubquery(stmt)
    \o <<" AND meaning = ">> \o stmt.meaning
    \o <<" AND COALESCE(additional_info, 'NULL_MARKER') = COALESCE(">>
    \o stmt.additional_info
    \o <<", 'NULL_MARKER') AND COALESCE(meta_type, 'NULL_MARKER') = COALESCE(">>
    \o stmt.meta_type
    \o <<", 'NULL_MARKER') ORDER BY translation_id DESC LIMIT 1)">>
SqlText(stmt) ==
    CASE stmt.kind = "schema" -> stmt.text
      [] stmt.kind = "words" ->
           <<"INSERT OR IGNORE INTO words (queried_word, base_form_json, primary_type, info_json) VALUES (">>
           \o stmt.queried_word \o <<", ">> \o stmt.base_form_json
           \o <<", ">> \o stmt.primary_type \o <<", ">> \o stmt.info_json
           \o <<");">>
      [] stmt.kind = "word_translations" ->
           <<"INSERT INTO word_translations (word_id, meaning, additional_info, meta_type) VALUES (">>
           \o WordIdSubquery(stmt) \o <<", ">> \o stmt.meaning
           \o <<", ">> \o stmt.additional_info \o <<", ">> \o stmt.meta_type
           \o <<");">>
      [] stmt.kind = "translation_examples" ->
           <<"INSERT INTO translation_examples (translation_id, source_text, target_text) VALUES (">>
           \o TranslationIdSubquery(stmt) \o <<", ">> \o stmt.source_text
           \o <<", ">> \o stmt.target_text \o <<");">>

\* ------------------------------------------------------------------------
\* extract_and_generate_sql_for_word
\* ------------------------------------------------------------------------
\* db_primary_type (lines 137-147)
PrimaryType(word_info) ==
    LET base_form_content == Get(word_info, "base_form")
        additional_info_content == Get(word_info, "additional_info")
        found ==
            IF base_form_content.ty = "dict"
            THEN IF Keys(base_form_content) # {}
                 THEN LET ks == SortedKeyList(base_form_content)
                      IN Str(Join(<<"/">>, [k \in 1..Len(ks) |-> <<ks[k]>>]))
                 ELSE None
            ELSE IF base_form_content.ty = "str"
                    /\ additional_info_content.ty = "dict"
            THEN IF "type" \in Keys(additional_info_content)
                 THEN additional_info_content.d["type"]
                 ELSE IF "usage" \in Keys(additional_info_content)
                 THEN additional_info_content.d["usage"]
                 ELSE None
            ELSE None
    IN IF Truthy(found) THEN found
       ELSE Str(<<"u", "n", "k", "n", "o", "w", "n">>)

\* re.sub raises TypeError on anything but a string
Transformable(v) == v.ty = "str"

\* mutant: one of the two texts is enough
EitherPresent(source_text_raw, target_text_raw) ==
    Truthy(source_text_raw) \/ Truthy(target_text_raw)

\* "if source_text_raw and target_text_raw" (line 182)
BothPresent(source_text_raw, target_text_raw) ==
    Truthy(source_text_raw) /\ Truthy(target_text_raw)

RECURSIVE ExamplesLoop(_, _, _, _, _)
\* the loop of lines 178-189 over the remaining examples exs of one
\* translation: the statements it appends, and whether it raised
ExamplesLoop(exs, w, meaning, additional_info_trans, meta_type_trans) ==
    IF exs = <<>> THEN [stmts |-> <<>>, raised |-> FALSE]
    ELSE LET ex_data == Head(exs)
         IN IF ex_data.ty # "dict"
            THEN [stmts |-> <<>>, raised |-> TRUE]
            ELSE
            LET source_text_raw == Get(ex_data, "source")
                target_text_raw == Get(ex_data, "target")
                rest == ExamplesLoop(Tail(exs), w, meaning,
                                     additional_info_trans, meta_type_trans)
            IN IF BothPresent(source_text_raw, target_text_raw)
               THEN IF Transformable(source_text_raw)
                       /\ Transformable(target_text_raw)
                    THEN [stmts |->
                            <<ExampleInsert(w, meaning, additional_info_trans,
                                meta_type_trans,
                                transform_example_text(source_text_raw),
                                transform_example_text(target_text_raw))>>
                            \o rest.stmts,
                          raised |-> rest.raised]
                    ELSE [stmts |-> <<>>, raised |-> TRUE]
               ELSE rest

\* mutant: a translation without a meaning is inserted like any other
SkipNullMeaningNever(meaning) == FALSE

\* "if meaning is None: log_error(...); continue" (lines 161-163)
SkipNullMeaning(meaning) == meaning.ty = "null"

RECURSIVE TranslationsLoop(_, _)
\* the loop of lines 156-189 over the remaining translations: the statements
\* it appends, the error-log entries it writes, and whether it raised
TranslationsLoop(trs, w) ==
    IF trs = <<>> THEN [stmts |-> <<>>, errs |-> <<>>, raised |-> FALSE]
    ELSE LET trans_data == Head(trs)
         IN IF trans_data.ty # "dict"
            THEN [stmts |-> <<>>, errs |-> <<>>, raised |-> TRUE]
            ELSE
            LET meaning == Get(trans_data, "meaning")
                additional_info_trans == Get(trans_data, "additionalInfo")
                meta_type_trans == Get(trans_data, "type")
                examples == GetOr(trans_data, "examples", List(<<>>))
            IN IF SkipNullMeaning(meaning)
               THEN LET rest == TranslationsLoop(Tail(trs), w)
                    IN [stmts |-> rest.stmts,
                        errs |-> <<log_error(w,
                                     "Skipping a translation due to missing meaning key or null value.",
                                     trans_data)>> \o rest.errs,
                        raised |-> rest.raised]
               ELSE
               LET ins == TranslationInsert(w, meaning, additional_info_trans,
                                            meta_type_trans)
               IN IF ~Iterable(examples)
                  THEN [stmts |-> <<ins>>, errs |-> <<>>, raised |-> TRUE]
                  ELSE
                  LET exl == ExamplesLoop(Items(examples), w, meaning,
                                 additional_info_trans, meta_type_trans)
                  IN IF exl.raised
                     THEN [stmts |-> <<ins>> \o exl.stmts, errs |-> <<>>,
                           raised |-> TRUE]
                     ELSE LET rest == TranslationsLoop(Tail(trs), w)
                          IN [stmts |-> <<ins>> \o exl.stmts \o rest.stmts,
                              errs |-> rest.errs,
                              raised |-> rest.raised]

\* the try block of extract_and_generate_sql_for_word (lines 130-192): the
\* statements appended to sql_insert_statements, the entries written to the
\* error log, and the exception that ended it ("none" when it returned)
GenerateSql(assistant_content_json, w) ==
    IF assistant_content_json.ty # "dict"
    THEN \* subscripting a string or a list with 'word_info': TypeError
         [stmts |-> <<>>, errs |-> <<>>, exc |-> "Exception"]
    ELSE IF "word_info" \notin Keys(assistant_content_json)
    THEN [stmts |-> <<>>, errs |-> <<>>, exc |-> "KeyError"]
    ELSE
    LET word_info_from_model == assistant_content_json.d["word_info"]
        all_translations_from_model ==
            GetOr(assistant_content_json, "translations", List(<<>>))
    IN IF word_info_from_model.ty # "dict"
       THEN \* .get on None, a string, a list or a number: AttributeError
            [stmts |-> <<>>, errs |-> <<>>, exc |-> "Exception"]
       ELSE
       LET row == WordInsert(w,
                     JsonDumps(Get(word_info_from_model, "base_form")),
                     PrimaryType(word_info_from_model),
                     JsonDumps(Get(word_info_from_model, "additional_info")))
       IN IF ~Iterable(all_translations_from_model)
          THEN [stmts |-> <<row>>, errs |-> <<>>, exc |-> "Exception"]
          ELSE
          LET tl == TranslationsLoop(Items(all_translations_from_model), w)
          IN [stmts |-> <<row>> \o tl.stmts, errs |-> tl.errs,
              exc |-> IF tl.raised THEN "Exception" ELSE "none"]

\* the entry an except clause of lines 194-199 writes
HandlerEntry(exc, assistant_content_json, w) ==
    IF exc = "KeyError"
    THEN log_error(w, "Parsing error: Missing key", assistant_content_json)
    ELSE log_error(w, "Unexpected error during SQL generation",
                   assistant_content_json)

\* mutant: True is returned whether or not an exception was handled
extract_returns_true(assistant_content_json, w) ==
    LET b == GenerateSql(assistant_content_json, w)
    IN [stmts |-> b.stmts,
        errs |-> IF b.exc = "none" THEN b.errs
                 ELSE Append(b.errs,
                             HandlerEntry(b.exc, assistant_content_json, w)),
        ok |-> TRUE]

\* extract_and_generate_sql_for_word(assistant_content_json,
\* original_queried_word): the try block, then the except clauses of lines
\* 194-199, which log and return False
extract_and_generate_sql_for_word(assistant_content_json, w) ==
    LET b == GenerateSql(assistant_content_json, w)
    IN [stmts |-> b.stmts,
        errs |-> IF b.exc = "none" THEN b.errs
                 ELSE Append(b.errs,
                             HandlerEntry(b.exc, assistant_content_json, w)),
        ok |-> b.exc = "none"]

\* ------------------------------------------------------------------------
\* The model endpoint's output and its parsing
\* ------------------------------------------------------------------------
\* The concatenated streamed text.  A text that is the serialisation of a JSON
\* value carries that value; json.loads gives it back.  Any other text (empty,
\* whitespace, prose) does not decode.
RawText(chars) == [text |-> chars, decodes |-> FALSE, value |-> None]
RawJson(v) == [text |-> JsonDumps(v), decodes |-> TRUE, value |-> v]

WORD_INFO == <<"w", "o", "r", "d", "_", "i", "n", "f", "o">>

\* 'word_info' in value: a key of a dict, an item of a list, a substring of a
\* string; TypeError for None and numbers
Contains_word_info(v) ==
    CASE v.ty = "dict" -> "word_info" \in Keys(v)
      [] v.ty = "list" -> \E k \in 1..Len(v.l) :
                             v.l[k].ty = "str" /\ v.l[k].s = WORD_INFO
      [] v.ty = "str" -> IsSubstring(WORD_INFO, v.s)
      [] OTHER -> FALSE

\* parse_model_output_for_assistant_content: the decoded value, or None on a
\* decode error, a missing 'word_info' (ValueError) or any other exception
parse_model_output_for_assistant_content(raw) ==
    IF ~raw.decodes THEN None
    ELSE IF Contains_word_info(raw.value) THEN raw.value
    ELSE None

\* ------------------------------------------------------------------------
\* Word extraction and filtering
\* ------------------------------------------------------------------------
\* read_and_extract_words_from_text_file: the file's words (the matches of
\* the letter pattern are the tokens of the model's text), lowercased,
\* deduplicated and sorted; [] when the file cannot be read
read_and_extract_words_from_text_file(file) ==
    IF ~file.found THEN <<>>
    ELSE SortedSeq({Lower(file.tokens[k]) : k \in 1..Len(file.tokens)})

\* mutant: the comparison with the stored words is case-sensitive
get_new_words_case_sensitive(words_from_text, database) ==
    IF words_from_text = <<>> THEN <<>>
    ELSE IF database.st # "ok" THEN words_from_text
    ELSE SelectSeq(words_from_text, LAMBDA word : word \notin database.rows)

\* get_new_words_not_in_db(words_from_text, db)
get_new_words_not_in_db(words_from_text, database) ==
    IF words_from_text = <<>> THEN <<>>
    ELSE IF database.st # "ok" THEN words_from_text
    ELSE LET existing_queried_words == {Lower(r) : r \in database.rows}
         IN SelectSeq(words_from_text,
                      LAMBDA word : Lower(word) \notin existing_queried_words)

\* ------------------------------------------------------------------------
\* Inputs: the text file, the database, the endpoint's answers
\* ------------------------------------------------------------------------
W_a == <<"a">>
W_b == <<"b">>
W_ab == <<"a", "b">>

\* tokens a short text file is made of
TextWords == {W_a, <<"A">>, <<"B">>}
\* queried_word values a database may hold
StoredWords == {<<"A">>, W_b}

RECURSIVE SeqsUpTo(_, _)
\* every sequence over S of length at most n
SeqsUpTo(S, n) ==
    IF n = 0 THEN {<<>>}
    ELSE LET shorter == SeqsUpTo(S, n - 1)
         IN shorter \cup {Append(q, x) : q \in shorter, x \in S}

\* the k-th (from 0) five-letter word over {a, b}, in ascending order
LongWord(k) ==
    [p \in 1..5 |-> IF (k \div (2 ^ (5 - p))) % 2 = 0 THEN "a" ELSE "b"]
\* lengths of the long word lists
LongLens == {PAUSE_EVERY, PAUSE_EVERY + 1, 2 * PAUSE_EVERY, MaxLongLen}

ShortTextFiles ==
    {[found |-> FALSE, tokens |-> <<>>]}
    \cup {[found |-> TRUE, tokens |-> t] : t \in SeqsUpTo(TextWords, MaxTokens)}
\* a long text holds its words in descending order
LongTextFiles ==
    {[found |-> TRUE, tokens |-> [k \in 1..n |-> LongWord(n - k)]] :
        n \in LongLens}

\* sqlite3.connect fails; the words table is missing; the table's rows
DbStates ==
    {[st |-> "connect_error", rows |-> {}], [st |-> "no_table", rows |-> {}]}
    \cup {[st |-> "ok", rows |-> r] : r \in SUBSET StoredWords}

\* JSON values of the endpoint's answers
Ex_good == Dict([source |-> Str(<<"|", "a", "|">>),
                 target |-> Str(<<"a", "'">>)])
Ex_no_source == Dict([source |-> Str(<<>>), target |-> Str(<<"a">>)])
Ex_null_target == Dict([source |-> Str(<<"a">>), target |-> None])
Ex_num_source == Dict([source |-> Num(1), target |-> Str(<<"a">>)])

T_good == Dict([meaning |-> Str(<<"a">>), additionalInfo |-> None,
                type |-> Str(<<"n">>),
                examples |-> List(<<Ex_good, Ex_no_source>>)])
T_plain == Dict([meaning |-> Str(<<"b", "'">>)])
T_null_meaning == Dict([meaning |-> None, examples |-> List(<<Ex_good>>)])
T_no_meaning == Dict([type |-> Str(<<"v">>)])
T_null_examples == Dict([meaning |-> Str(<<"b">>), examples |-> None])

Wi_str == Dict([base_form |-> Str(<<"a", "'">>),
                additional_info |-> Dict([type |-> Str(<<"n">>)])])
Wi_dict == Dict([base_form |-> Dict([v |-> Str(<<"a">>), n |-> Str(<<"b">>)])])

R_rich == Dict([word_info |-> Wi_str,
                translations |-> List(<<T_good, T_null_meaning, T_plain>>)])
R_min == Dict([word_info |-> Wi_dict])
R_partial == Dict([word_info |-> Wi_str,
                   translations |-> List(<<T_plain, Str(<<"a">>)>>)])
R_skip_then_fail == Dict([word_info |-> Wi_str,
                          translations |->
                              List(<<T_no_meaning, T_null_examples>>)])
R_null_word_info == Dict([word_info |-> None])
R_string == Str(WORD_INFO)
R_no_key == Dict([x |-> None])
R_number == Num(0)

\* what one call of get_translation_from_model may do: raise, or return a text
Raises == [raises |-> TRUE, raw |-> RawText(<<>>)]
Returns(raw) == [raises |-> FALSE, raw |-> raw]

Outcomes ==
    {Raises, Returns(RawText(<<>>)), Returns(RawText(<<" ", " ">>)),
     Returns(RawText(<<"a">>))}
    \cup {Returns(RawJson(v)) :
            v \in {R_rich, R_min, R_partial, R_skip_then_fail,
                   R_null_word_info, R_string, R_no_key, R_number}}

\* on a long run the endpoint answers every word the same way, by the word's
\* last letter
LongOutcomes ==
    {Returns(RawText(<<" ">>)), Returns(RawJson(R_rich)),
     Returns(RawJson(R_partial))}

\* ------------------------------------------------------------------------
\* State
\* ------------------------------------------------------------------------
VARIABLES
    pc,                     \* position of the script
    text_file,              \* input: the text file
    db,                     \* input: the database
    oracle,                 \* input: word -> what the endpoint may do for it
    sql_insert_statements,  \* the accumulator (line 70)
    error_log,              \* ERROR_LOG_FILE, one element per entry
    success_log,            \* SUCCESSFUL_JSON_LOG_FILE, one element per line
    sql_file,               \* SQL_OUTPUT_FILE: written, and its lines
    all_words_from_text,
    words_to_process_query, \* [bound, v]: unbound until line 338 assigns it
    client,                 \* "unbound", "ready", or "init_failed"
    i,                      \* index of the word loop (0-based)
    successful_words,
    failed_words_count,
    attempt,                \* attempt of process_word_with_retries
    raw_for_logging,        \* full_raw_streamed_output_for_logging
    result,                 \* value process_word_with_retries returned
    processed,              \* history: words process_word_with_retries got
    pauses,                 \* history: values of i + 1 at which the loop slept
    model_calls,            \* history: endpoint calls for the current word
    slept_seconds,          \* history: seconds slept between the word's attempts
    last_outcome,           \* history: how the current word's last attempt ended
    last_response,          \* history: the object the parser last returned
    sql_before,             \* history: the accumulator when the word began
    arg,                    \* argument of a function applied on its own
    res                     \* its result

inputs == <<text_file, db, oracle>>
files == <<error_log, success_log, sql_file>>
word_vars == <<all_words_from_text, words_to_process_query>>
main_vars == <<client, i, successful_words, failed_words_count, processed,
               pauses>>
call_vars == <<attempt, raw_for_logging, result>>
call_hist == <<model_calls, slept_seconds, last_outcome, last_response,
               sql_before>>
fn_vars == <<arg, res>>
vars == <<pc, inputs, sql_insert_statements, files, word_vars, main_vars,
          call_vars, call_hist, fn_vars>>

NoArg == [none |-> TRUE]

\* the state of the interpreter when the module body starts to run
InitScript ==
    /\ sql_insert_statements = <<>>
    /\ error_log = <<>>
    /\ success_log = <<>>
    /\ sql_file = [written |-> FALSE, lines |-> <<>>]
    /\ all_words_from_text = <<>>
    /\ words_to_process_query = [bound |-> FALSE, v |-> <<>>]
    /\ client = "unbound"
    /\ i = 0
    /\ successful_words = 0
    /\ failed_words_count = 0
    /\ attempt = 0
    /\ raw_for_logging = <<>>
    /\ result = FALSE
    /\ processed = <<>>
    /\ pauses = {}
    /\ model_calls = 0
    /\ slept_seconds = 0
    /\ last_outcome = "none"
    /\ last_response = None
    /\ sql_before = <<>>

WordsOf(file) == {Lower(file.tokens[k]) : k \in 1..Len(file.tokens)}

\* a short text with any database, the endpoint free to answer anything; or
\* a long text, the endpoint's answer fixed by the word's last letter
Init ==
    /\ pc = "start"
    /\ InitScript
    /\ arg = NoArg
    /\ res = NoArg
    /\ \/ /\ text_file \in ShortTextFiles
          /\ db \in DbStates
          /\ oracle = [w \in WordsOf(text_file) |-> Outcomes]
       \/ /\ text_file \in LongTextFiles
          /\ db \in {[st |-> "no_table", rows |-> {}],
                     [st |-> "ok", rows |-> {}]}
          /\ \E oa \in LongOutcomes, ob \in LongOutcomes :
                oracle = [w \in WordsOf(text_file) |->
                             IF w[Len(w)] = "a" THEN {oa} ELSE {ob}]

\* ------------------------------------------------------------------------
\* The script (lines 318-396)
\* ------------------------------------------------------------------------
ErrorLogHeader ==
    [word |-> <<>>, reason |-> "Error Log - Run started",
     data |-> [kind |-> "none", text |-> <<>>]]
SuccessLogHeader ==
    <<[comment |-> "# Log of successfully processed model JSON responses"],
      [comment |-> "# Each subsequent line is a JSON object"]>>

\* lines 320-334: schema, log files, extraction
Start ==
    /\ pc = "start"
    /\ sql_insert_statements' = Append(sql_insert_statements, generate_schema_sql)
    /\ error_log' = <<ErrorLogHeader>>
    /\ success_log' = SuccessLogHeader
    /\ LET extracted == read_and_extract_words_from_text_file(text_file)
       IN /\ all_words_from_text' = extracted
          /\ pc' = IF extracted = <<>> THEN "flush" ELSE "filter"
    /\ UNCHANGED <<inputs, sql_file, words_to_process_query, main_vars,
                   call_vars, call_hist, fn_vars>>

\* lines 338-343
Filter ==
    /\ pc = "filter"
    /\ LET new == get_new_words_not_in_db(all_words_from_text, db)
       IN /\ words_to_process_query' = [bound |-> TRUE, v |-> new]
          /\ pc' = IF new = <<>> THEN "flush" ELSE "client_init"
    /\ UNCHANGED <<inputs, sql_insert_statements, files, all_words_from_text,
                   main_vars, call_vars, call_hist, fn_vars>>

\* lines 347-358: genai.Client(...) returns
ClientInitOk ==
    /\ pc = "client_init"
    /\ client' = "ready"
    /\ successful_words' = 0
    /\ failed_words_count' = 0
    /\ i' = 0
    /\ pc' = "loop"
    /\ UNCHANGED <<inputs, sql_insert_statements, files, word_vars, processed,
                   pauses, call_vars, call_hist, fn_vars>>

\* log_error("CRITICAL SCRIPT ERROR", str(e)): no raw output is passed
CriticalEntry ==
    log_error(<<"CRITICAL SCRIPT ERROR">>, "str(e)", Str(<<>>))

\* mutant: the handler ends the script
AfterCriticalErrorExit == "finished"

\* where the handler of lines 380-382 leaves the script: at the write of the
\* SQL file (line 385)
AfterCriticalError == "flush"

\* lines 347-351 raise; the handler of lines 380-382 logs the error
ClientInitRaises ==
    /\ pc = "client_init"
    /\ client' = "init_failed"
    /\ error_log' = Append(error_log, CriticalEntry)
    /\ pc' = AfterCriticalError
    /\ UNCHANGED <<inputs, sql_insert_statements, success_log, sql_file,
                   word_vars, i, successful_words, failed_words_count,
                   processed, pauses, call_vars, call_hist, fn_vars>>

CurrentWord == words_to_process_query.v[i + 1]

\* mutant: the loop stops at the first failed word
LoopContinuesUntilFailure(idx, words) ==
    idx < Len(words) /\ failed_words_count = 0

\* "for i, word_query in enumerate(words_to_process_query)": a next word
LoopContinues(idx, words) == idx < Len(words)

\* lines 360-362: the loop takes the next word and calls
\* process_word_with_retries (lines 250-252)
BeginWord ==
    /\ pc = "loop"
    /\ LoopContinues(i, words_to_process_query.v)
    /\ processed' = Append(processed, CurrentWord)
    /\ attempt' = 1
    /\ raw_for_logging' = <<>>
    /\ model_calls' = 0
    /\ slept_seconds' = 0
    /\ last_outcome' = "none"
    /\ last_response' = None
    /\ sql_before' = sql_insert_statements
    /\ pc' = "attempt"
    /\ UNCHANGED <<inputs, sql_insert_statements, files, word_vars, client, i,
                   successful_words, failed_words_count, pauses, result,
                   fn_vars>>

\* mutant: one attempt too many
MayRetryOffByOne(n) == n <= MAX_RETRIES

\* "if attempt < MAX_RETRIES" (lines 260, 289, 297)
MayRetry(n) == n < MAX_RETRIES

\* the shared tail of the three recoverable outcomes: sleep and go round the
\* loop again, or log the failure and return False
RetryOrGiveUp(entry) ==
    IF MayRetry(attempt)
    THEN /\ attempt' = attempt + 1
         /\ slept_seconds' = slept_seconds + RETRY_DELAY_SECONDS
         /\ pc' = "attempt"
         /\ UNCHANGED <<error_log, result>>
    ELSE /\ error_log' = Append(error_log, entry)
         /\ result' = FALSE
         /\ pc' = "returned"
         /\ UNCHANGED <<attempt, slept_seconds>>

NO_RAW_NOTE == <<"No raw output captured due to early exception.">>

\* lines 255, 295-302: get_translation_from_model raises
AttemptRaises ==
    /\ pc = "attempt"
    /\ \E o \in oracle[CurrentWord] :
          /\ o.raises
          /\ model_calls' = model_calls + 1
          /\ last_outcome' = "exception"
          /\ RetryOrGiveUp(
                log_error(CurrentWord, "Unexpected error after max retries",
                          IF raw_for_logging # <<>>
                          THEN Str(raw_for_logging) ELSE Str(NO_RAW_NOTE)))
    /\ UNCHANGED <<inputs, sql_insert_statements, success_log, sql_file,
                   word_vars, main_vars, raw_for_logging, last_response,
                   sql_before, fn_vars>>

\* "not full_raw_streamed_output or not full_raw_streamed_output.strip()"
NoContent(text) == text = <<>> \/ IsBlank(text)

\* lines 255-265: the text is empty or whitespace
AttemptEmpty ==
    /\ pc = "attempt"
    /\ \E o \in oracle[CurrentWord] :
          /\ ~o.raises
          /\ NoContent(o.raw.text)
          /\ model_calls' = model_calls + 1
          /\ last_outcome' = "empty"
          /\ raw_for_logging' = o.raw.text
          /\ RetryOrGiveUp(
                log_error(CurrentWord, "No content from model after max retries.",
                          Str(o.raw.text)))
    /\ UNCHANGED <<inputs, sql_insert_statements, success_log, sql_file,
                   word_vars, main_vars, last_response, sql_before, fn_vars>>

\* lines 255-258, 267, 287-294: the parser returns None
AttemptParseFails ==
    /\ pc = "attempt"
    /\ \E o \in oracle[CurrentWord] :
          /\ ~o.raises
          /\ ~NoContent(o.raw.text)
          /\ ~Truthy(parse_model_output_for_assistant_content(o.raw))
          /\ model_calls' = model_calls + 1
          /\ last_outcome' = "parse_failure"
          /\ raw_for_logging' = o.raw.text
          /\ RetryOrGiveUp(
                log_error(CurrentWord,
                          "Failed to parse model output after max retries (parser returned None).",
                          Str(o.raw.text)))
    /\ UNCHANGED <<inputs, sql_insert_statements, success_log, sql_file,
                   word_vars, main_vars, last_response, sql_before, fn_vars>>

\* the line written to the successful-response log (lines 274-279)
SuccessEntry(w, assistant_content_json) ==
    [queried_word |-> w, timestamp |-> "%Y-%m-%d %H:%M:%S",
     response_data |-> JsonDumps(assistant_content_json)]

\* lines 255-258, 267-286: the parser accepts the text; SQL generation decides
AttemptParsed ==
    /\ pc = "attempt"
    /\ \E o \in oracle[CurrentWord] :
          /\ ~o.raises
          /\ ~NoContent(o.raw.text)
          /\ LET assistant_content_json ==
                     parse_model_output_for_assistant_content(o.raw)
                 gen == extract_and_generate_sql_for_word(
                            assistant_content_json, CurrentWord)
             IN /\ Truthy(assistant_content_json)
                /\ model_calls' = model_calls + 1
                /\ last_outcome' = "parsed"
                /\ last_response' = assistant_content_json
                /\ raw_for_logging' = o.raw.text
                /\ sql_insert_statements' = sql_insert_statements \o gen.stmts
                /\ error_log' = error_log \o gen.errs
                /\ success_log' =
                      IF gen.ok
                      THEN Append(success_log,
                                  SuccessEntry(CurrentWord, assistant_content_json))
                      ELSE success_log
                /\ result' = gen.ok
                /\ pc' = "returned"
    /\ UNCHANGED <<inputs, sql_file, word_vars, main_vars, attempt,
                   slept_seconds, sql_before, fn_vars>>

\* mutant: the length of the list is not looked at
ShouldPauseEveryTenth(n, len) == n % PAUSE_EVERY = 0

\* "(i + 1) % 10 == 0 and len(words_to_process_query) > 10" (line 370)
ShouldPause(n, len) == n % PAUSE_EVERY = 0 /\ len > PAUSE_MIN_LEN

\* lines 362-372: count the word, pause, next iteration
ReturnWord ==
    /\ pc = "returned"
    /\ successful_words' = IF result THEN successful_words + 1
                           ELSE successful_words
    /\ failed_words_count' = IF result THEN failed_words_count
                             ELSE failed_words_count + 1
    /\ pauses' = IF ShouldPause(i + 1, Len(words_to_process_query.v))
                 THEN pauses \cup {i + 1} ELSE pauses
    /\ i' = i + 1
    /\ pc' = "loop"
    /\ UNCHANGED <<inputs, sql_insert_statements, files, word_vars, client,
                   processed, call_vars, call_hist, fn_vars>>

\* lines 375-378: the loop is exhausted
Summary ==
    /\ pc = "loop"
    /\ ~LoopContinues(i, words_to_process_query.v)
    /\ pc' = "flush"
    /\ UNCHANGED <<inputs, sql_insert_statements, files, word_vars, main_vars,
                   call_vars, call_hist, fn_vars>>

\* "for stmt in sql_insert_statements: f_sql.write(stmt + "\n")" (lines 385-387)
FileLines(stmts) == [k \in 1..Len(stmts) |-> SqlText(stmts[k]) \o <<"\n">>]

\* lines 385-396: write the SQL file, one statement per line; line 389 then
\* reads words_to_process_query, which is unbound when no word was extracted
Flush ==
    /\ pc = "flush"
    /\ sql_file' = [written |-> TRUE,
                    lines |-> FileLines(sql_insert_statements)]
    /\ pc' = IF words_to_process_query.bound THEN "finished" ELSE "name_error"
    /\ UNCHANGED <<inputs, sql_insert_statements, error_log, success_log,
                   word_vars, main_vars, call_vars, call_hist, fn_vars>>

Next ==
    \/ Start
    \/ Filter
    \/ ClientInitOk
    \/ ClientInitRaises
    \/ BeginWord
    \/ AttemptRaises
    \/ AttemptEmpty
    \/ AttemptParseFails
    \/ AttemptParsed
    \/ ReturnWord
    \/ Summary
    \/ Flush

Spec == Init /\ [][Next]_vars

\* ------------------------------------------------------------------------
\* Functions applied on their own
\* ------------------------------------------------------------------------
\* the script's variables while a function is applied on its own
Idle ==
    /\ InitScript
    /\ text_file = [found |-> FALSE, tokens |-> <<>>]
    /\ db = [st |-> "no_table", rows |-> {}]
    /\ oracle = <<>>
script_vars == <<inputs, files, word_vars, main_vars, call_vars, call_hist>>

\* escape_sql_string on None and on strings over a small alphabet
EscapeChars == {"'", "a", "b"}
O_Brien == <<"O", "'", "B", "r", "i", "e", "n">>
EscapeInputs ==
    {None, Str(O_Brien)} \cup {Str(t) : t \in SeqsUpTo(EscapeChars, MaxStrLen)}

InitEscape ==
    /\ pc = "fn"
    /\ Idle
    /\ arg \in EscapeInputs
    /\ res = NoArg

ApplyEscape ==
    /\ pc = "fn"
    /\ res' = [v |-> escape_sql_string(arg)]
    /\ pc' = "fn_done"
    /\ UNCHANGED <<arg, sql_insert_statements, script_vars>>

SpecEscape == InitEscape /\ [][ApplyEscape]_vars

\* get_new_words_not_in_db on word lists of either case, with repetitions
FilterWords == {W_a, <<"A">>, W_b, <<"B">>}
InitFilter ==
    /\ pc = "fn"
    /\ Idle
    /\ arg \in {[words |-> ws, db |-> d] :
                  ws \in SeqsUpTo(FilterWords, MaxFilterLen), d \in DbStates}
    /\ res = NoArg

ApplyFilter ==
    /\ pc = "fn"
    /\ res' = [v |-> get_new_words_not_in_db(arg.words, arg.db)]
    /\ pc' = "fn_done"
    /\ UNCHANGED <<arg, sql_insert_statements, script_vars>>

SpecFilter == InitFilter /\ [][ApplyFilter]_vars

\* extract_and_generate_sql_for_word on responses built from every list of
\* translations, each with every list of examples
ExampleSet == {Ex_good, Ex_no_source, Ex_num_source}
TranslationSet ==
    {Dict([meaning |-> Str(<<"a">>), additionalInfo |-> None,
           type |-> Str(<<"n">>), examples |-> List(e)]) :
        e \in SeqsUpTo(ExampleSet, MaxExamples)}
    \cup {T_plain, T_null_meaning, T_no_meaning, T_null_examples,
          Str(<<"a">>), Dict([meaning |-> Str(<<>>)]),
          Dict([meaning |-> Num(0), examples |-> List(<<Ex_null_target>>)]),
          Dict([meaning |-> Str(<<"b">>), examples |-> List(<<Num(1)>>)])}
ExtractInputs ==
    {Dict([word_info |-> wi, translations |-> List(t)]) :
        wi \in {Wi_str, Wi_dict}, t \in SeqsUpTo(TranslationSet, MaxTrans)}
    \cup {R_min, R_null_word_info, R_string, R_no_key,
          Dict([word_info |-> Wi_str, translations |-> None]),
          Dict([word_info |-> Wi_str, translations |-> Str(<<>>)])}

InitExtract ==
    /\ pc = "fn"
    /\ Idle
    /\ arg \in {[acj |-> r, w |-> W_ab] : r \in ExtractInputs}
    /\ res = NoArg

ApplyExtract ==
    /\ pc = "fn"
    /\ LET gen == extract_and_generate_sql_for_word(arg.acj, arg.w)
       IN /\ sql_insert_statements' = sql_insert_statements \o gen.stmts
          /\ error_log' = error_log \o gen.errs
          /\ res' = [v |-> gen.ok]
    /\ pc' = "fn_done"
    /\ UNCHANGED <<arg, inputs, success_log, sql_file, word_vars, main_vars,
                   call_vars, call_hist>>

SpecExtract == InitExtract /\ [][ApplyExtract]_vars

\* ------------------------------------------------------------------------
\* Properties
\* ------------------------------------------------------------------------
\* entries of the error log written for word w
ErrorEntriesFor(w) == {k \in 1..Len(error_log) : error_log[k].word = w}
\* lines of the successful-response log written for word w
SuccessEntriesFor(w) ==
    {k \in 1..Len(success_log) :
        /\ "queried_word" \in DOMAIN success_log[k]
        /\ success_log[k].queried_word = w}

Recoverable == {"exception", "empty", "parse_failure"}
SKIP_REASON == "Skipping a translation due to missing meaning key or null value."
SQL_FAILURE_REASONS ==
    {"Unexpected error during SQL generation", "Parsing error: Missing key"}

\* C1: while every attempt of a word ends in an empty response, a parse
\* failure or an exception of the model call, nothing is logged for the word
\* and the call count follows the attempt number; the word then returns only
\* after exactly MAX_RETRIES calls, with False, and with exactly one entry in
\* the error log, written by the last attempt.
C1_RetryExhaustion ==
    /\ pc = "attempt" =>
          /\ attempt \in 1..MAX_RETRIES
          /\ model_calls = attempt - 1
          /\ slept_seconds = (attempt - 1) * RETRY_DELAY_SECONDS
          /\ last_outcome \in Recoverable \cup {"none"}
          /\ ErrorEntriesFor(CurrentWord) = {}
    /\ (pc = "returned" /\ last_outcome \in Recoverable) =>
          /\ model_calls = MAX_RETRIES
          /\ attempt = MAX_RETRIES
          /\ result = FALSE
          /\ ErrorEntriesFor(CurrentWord) = {Len(error_log)}

\* a word exhausted by a mixture: an earlier attempt returned unparseable
\* text, the last one raised
C1_Witness ==
    /\ pc = "returned"
    /\ last_outcome = "exception"
    /\ raw_for_logging = <<"a">>
    /\ model_calls = MAX_RETRIES
    /\ ~result
    /\ Cardinality(ErrorEntriesFor(CurrentWord)) = 1

\* C2 as stated: an attempt whose response is non-empty and accepted by the
\* parser as a JSON object with the key word_info ends the word in Done:
\* True is returned and the successful-response log has the word's entry.
C2_SuccessIsDone ==
    (/\ pc = "returned"
     /\ last_outcome = "parsed"
     /\ last_response.ty = "dict"
     /\ "word_info" \in Keys(last_response))
    => /\ result = TRUE
       /\ SuccessEntriesFor(CurrentWord) # {}

\* C2 amended: an attempt whose response the parser accepts is the word's
\* last attempt.  If SQL generation returns True the word is Done: the
\* accumulator has grown by statements that begin with the word's row, the
\* successful-response log ends with the word's one entry, and the only
\* error-log entries of the word are skipped translations.  Otherwise the
\* word is Failed: False is returned, the successful-response log has no
\* entry of the word, and the error log ends with the word's one
\* SQL-generation entry.
C2_SuccessEndsWord ==
    /\ pc = "attempt" => last_outcome # "parsed"
    /\ (pc = "returned" /\ last_outcome = "parsed") =>
          /\ model_calls = attempt
          /\ IF result
             THEN /\ Len(sql_insert_statements) > Len(sql_before)
                  /\ SubSeq(sql_insert_statements, 1, Len(sql_before))
                        = sql_before
                  /\ LET row == sql_insert_statements[Len(sql_before) + 1]
                     IN /\ row.kind = "words"
                        /\ row.queried_word
                              = escape_sql_string(Str(CurrentWord))
                  /\ SuccessEntriesFor(CurrentWord) = {Len(success_log)}
                  /\ \A k \in ErrorEntriesFor(CurrentWord) :
                        error_log[k].reason = SKIP_REASON
             ELSE /\ SuccessEntriesFor(CurrentWord) = {}
                  /\ error_log[Len(error_log)].word = CurrentWord
                  /\ {k \in ErrorEntriesFor(CurrentWord) :
                         error_log[k].reason \in SQL_FAILURE_REASONS}
                        = {Len(error_log)}

\* a word that failed on its third attempt, whose response was accepted
C2_Witness ==
    /\ pc = "returned"
    /\ last_outcome = "parsed"
    /\ last_response = R_null_word_info
    /\ attempt = 3
    /\ ~result

\* C3: with the client initialised, process_word_with_retries is invoked once
\* for each word of the filtered list, in list order, whatever the earlier
\* words returned, and when the loop is over successful_words +
\* failed_words_count is the length of the list.
C3_EveryWordOnce ==
    client = "ready" =>
        LET words == words_to_process_query.v
        IN /\ Len(processed) <= Len(words)
           /\ processed = SubSeq(words, 1, Len(processed))
           /\ pc = "loop" =>
                 /\ Len(processed) = i
                 /\ successful_words + failed_words_count = i
           /\ pc \in {"attempt", "returned"} =>
                 /\ Len(processed) = i + 1
                 /\ successful_words + failed_words_count = i
           /\ pc \in {"flush", "finished"} =>
                 /\ processed = words
                 /\ successful_words + failed_words_count = Len(words)

\* the first word failed and the second was still processed, successfully
C3_Witness ==
    /\ pc = "finished"
    /\ client = "ready"
    /\ Len(processed) = 2
    /\ ErrorEntriesFor(processed[1]) # {}
    /\ SuccessEntriesFor(processed[1]) = {}
    /\ SuccessEntriesFor(processed[2]) # {}
    /\ failed_words_count = 1
    /\ successful_words = 1

CriticalEntries ==
    {k \in 1..Len(error_log) :
        error_log[k].word = <<"CRITICAL SCRIPT ERROR">>}

\* C4: when client initialisation raises, no word is processed and no model
\* call is made, the error log holds one critical entry, and the script goes
\* on to write the SQL file; the file written holds the accumulated
\* statements in order, the schema first.  (On every path the file is the
\* accumulator, schema first.)
C4_InitFailureStillFlushes ==
    /\ client = "init_failed" =>
          /\ processed = <<>>
          /\ model_calls = 0
          /\ Cardinality(CriticalEntries) = 1
          /\ pc \in {"flush", "finished"}
    /\ pc \in {"finished", "name_error"} =>
          /\ sql_file.written
          /\ Len(sql_file.lines) = Len(sql_insert_statements)
          /\ \A k \in 1..Len(sql_file.lines) :
                sql_file.lines[k] = SqlText(sql_insert_statements[k]) \o <<"\n">>
          /\ sql_insert_statements[1] = generate_schema_sql
    /\ client # "init_failed" => CriticalEntries = {}

\* initialisation failed and the SQL file holds the schema
C4_Witness ==
    /\ client = "init_failed"
    /\ pc = "finished"
    /\ sql_file.written
    /\ sql_file.lines = <<SqlText(generate_schema_sql) \o <<"\n">>>>
    /\ Len(words_to_process_query.v) = 2

\* C5: get_new_words_not_in_db returns the input words whose lowercase form
\* is the lowercase form of no stored queried_word, each as often as it
\* occurs and in the input's order; when the table is missing or the
\* database fails it returns the input list.
C5_FilterExact ==
    pc = "fn_done" /\ "words" \in DOMAIN arg =>
        LET ws == arg.words
            out == res.v
            stored == arg.db.rows
            kept == {k \in 1..Len(ws) :
                        \A r \in stored : Lower(ws[k]) # Lower(r)}
        IN IF arg.db.st # "ok" THEN out = ws
           ELSE /\ Len(out) = Cardinality(kept)
                /\ \A k \in kept :
                      out[Cardinality({j \in kept : j <= k})] = ws[k]

\* "a" is dropped because "A" is stored, "b" is kept
C5_Witness ==
    /\ pc = "fn_done"
    /\ "words" \in DOMAIN arg
    /\ arg.words = <<W_a, W_b, <<"A">>, W_b>>
    /\ arg.db = [st |-> "ok", rows |-> {<<"A">>}]
    /\ res.v = <<W_b, W_b>>

\* the translations and examples a response lists
TranslationsOf(r) ==
    LET tv == GetOr(r, "translations", List(<<>>))
    IN IF tv.ty = "list" THEN tv.l ELSE <<>>
ExamplesOf(tr) ==
    LET ev == GetOr(tr, "examples", List(<<>>))
    IN IF ev.ty = "list" THEN ev.l ELSE <<>>
NonEmptyText(v) == v.ty = "str" /\ v.s # <<>>
HasMeaning(tr) == tr.ty = "dict" /\ Get(tr, "meaning").ty # "null"
HasNullMeaning(tr) == tr.ty = "dict" /\ Get(tr, "meaning").ty = "null"

\* the kinds of statement the claim C6 lists for one translation: none when
\* its meaning is null, else its INSERT followed by one INSERT per example
\* whose source and target are both non-empty texts
StatementsOwedTo(tr) ==
    IF ~HasMeaning(tr) THEN <<>>
    ELSE LET m == escape_sql_string(Get(tr, "meaning"))
             exs == SelectSeq(ExamplesOf(tr),
                       LAMBDA e : /\ e.ty = "dict"
                                  /\ NonEmptyText(Get(e, "source"))
                                  /\ NonEmptyText(Get(e, "target")))
         IN <<[kind |-> "word_translations", meaning |-> m]>>
            \o [k \in 1..Len(exs) |->
                  [kind |-> "translation_examples", meaning |-> m]]
StatementsOwed(r, w) ==
    LET trs == TranslationsOf(r)
    IN <<[kind |-> "words", meaning |-> escape_sql_string(Str(w))]>>
       \o Concat([k \in 1..Len(trs) |-> StatementsOwedTo(trs[k])])
\* what a list of statements is: each statement's kind and the word (for a
\* word row) or the meaning of the translation it is or belongs to
KindsOf(stmts) ==
    [k \in 1..Len(stmts) |->
        [kind |-> stmts[k].kind,
         meaning |-> IF stmts[k].kind = "words" THEN stmts[k].queried_word
                     ELSE stmts[k].meaning]]

\* C6: when extract_and_generate_sql_for_word returns True it has appended
\* to the accumulator the word's row, then for each translation with a
\* non-null meaning, in order, that translation's INSERT followed by one
\* INSERT for each of its examples whose source and target are both
\* non-empty, and nothing else.
C6_StatementsPerWord ==
    (pc = "fn_done" /\ res.v) =>
        KindsOf(sql_insert_statements) = StatementsOwed(arg.acj, arg.w)

\* a skipped translation, then one with a kept and a dropped example
C6_Witness ==
    /\ pc = "fn_done"
    /\ res.v
    /\ TranslationsOf(arg.acj) = <<T_null_meaning, T_good>>
    /\ Len(sql_insert_statements) = 3

\* a response with its null-meaning translations removed
WithoutNullMeanings(r) ==
    Dict([k \in Keys(r) |->
            IF k = "translations"
            THEN List(SelectSeq(r.d[k].l, LAMBDA tr : ~HasNullMeaning(tr)))
            ELSE r.d[k]])
NullMeanings(r) ==
    {k \in 1..Len(TranslationsOf(r)) : HasNullMeaning(TranslationsOf(r)[k])}
SkipEntriesFor(w) ==
    {k \in ErrorEntriesFor(w) : error_log[k].reason = SKIP_REASON}

\* C7: a translation whose meaning is missing or null changes nothing but
\* the error log: the word gets the statements and the return value it
\* would get without that translation, no statement carries a NULL meaning,
\* each such translation that is reached is logged once, the translations
\* after it are processed, and a response that is otherwise well formed
\* ends the word in Done with its entry in the successful-response log.
C7_NullMeaningSkipped ==
    (/\ pc = "returned"
     /\ last_outcome = "parsed"
     /\ last_response.ty = "dict"
     /\ NullMeanings(last_response) # {})
    => LET w == CurrentWord
           without == extract_and_generate_sql_for_word(
                          WithoutNullMeanings(last_response), w)
           appended == SubSeq(sql_insert_statements, Len(sql_before) + 1,
                              Len(sql_insert_statements))
       IN /\ appended = without.stmts
          /\ result = without.ok
          /\ \A k \in 1..Len(appended) :
                appended[k].kind # "words"
                => appended[k].meaning # escape_sql_string(None)
          /\ Cardinality(SkipEntriesFor(w))
                <= Cardinality(NullMeanings(last_response))
          /\ 1 \in NullMeanings(last_response) => SkipEntriesFor(w) # {}
          /\ result =>
                /\ Cardinality(SkipEntriesFor(w))
                      = Cardinality(NullMeanings(last_response))
                /\ ErrorEntriesFor(w) = SkipEntriesFor(w)
                /\ SuccessEntriesFor(w) = {Len(success_log)}
          /\ last_response = R_rich =>
                /\ result
                /\ KindsOf(appended) = StatementsOwed(R_rich, w)

\* the second of three translations has no meaning; the third is inserted
C7_Witness ==
    /\ pc = "returned"
    /\ last_response = R_rich
    /\ result
    /\ Cardinality(SkipEntriesFor(CurrentWord)) = 1
    /\ sql_insert_statements[Len(sql_insert_statements)].kind
          = "word_translations"
    /\ sql_insert_statements[Len(sql_insert_statements)].meaning
          = escape_sql_string(Get(T_plain, "meaning"))

RECURSIVE Halve(_)
\* the text with every doubled quote halved; ok is FALSE when a quote
\* stands alone
Halve(s) ==
    IF s = <<>> THEN [ok |-> TRUE, s |-> <<>>]
    ELSE IF s[1] # "'"
    THEN LET r == Halve(Tail(s)) IN [ok |-> r.ok, s |-> <<s[1]>> \o r.s]
    ELSE IF Len(s) >= 2 /\ s[2] = "'"
    THEN LET r == Halve(Tail(Tail(s))) IN [ok |-> r.ok, s |-> <<"'">> \o r.s]
    ELSE [ok |-> FALSE, s |-> <<>>]
QuotesIn(s) == {k \in 1..Len(s) : s[k] = "'"}

\* C8: escape_sql_string gives NULL for None; for a string it gives the
\* string between two single quotes with every single quote doubled and
\* every other character kept in place, so that halving the doubled quotes
\* of what is between the outer quotes gives the string back; O'Brien gives
\* 'O''Brien'.
C8_EscapeRoundTrip ==
    pc = "fn_done" =>
        IF arg.ty = "null" THEN res.v = <<"N", "U", "L", "L">>
        ELSE LET out == res.v
                 inner == SubSeq(out, 2, Len(out) - 1)
             IN /\ Len(out) >= 2
                /\ out[1] = "'"
                /\ out[Len(out)] = "'"
                /\ Len(inner) = Len(arg.s) + Cardinality(QuotesIn(arg.s))
                /\ Halve(inner) = [ok |-> TRUE, s |-> arg.s]
                /\ arg.s = O_Brien =>
                      out = <<"'", "O", "'", "'", "B", "r", "i", "e", "n", "'">>

\* a string with two quotes in a row
C8_Witness ==
    /\ pc = "fn_done"
    /\ arg = Str(<<"a", "'", "'", "b">>)
    /\ res.v = <<"'", "a", "'", "'", "'", "'", "b", "'">>

TenthsUpTo(n) == {k \in 1..n : k % PAUSE_EVERY = 0}

\* C9 as stated: the loop has paused after each tenth word it has completed,
\* and nowhere else.
C9_PauseEveryTenth ==
    client = "ready" => pauses = TenthsUpTo(i)

\* C9 amended: when the list holds more than ten words the loop has paused
\* after each tenth word it has completed (whatever the word returned) and
\* nowhere else; when the list holds ten words or fewer it never pauses.
C9_PauseWhenMany ==
    /\ client = "ready" =>
          pauses = IF Len(words_to_process_query.v) > PAUSE_MIN_LEN
                   THEN TenthsUpTo(i) ELSE {}
    /\ client # "ready" => pauses = {}

\* a list of more than twenty words, some Done and some Failed
C9_Witness ==
    /\ pc = "finished"
    /\ Len(words_to_process_query.v) > 2 * PAUSE_EVERY
    /\ pauses = {PAUSE_EVERY, 2 * PAUSE_EVERY}
    /\ successful_words > 0
    /\ failed_words_count > 0

\* C10: a word for which process_word_with_retries returns False leaves the
\* accumulator as it was when the word began.
C10_AllOrNothing ==
    (pc = "returned" /\ ~result) => sql_insert_statements = sql_before

\* C11: no run of the script ends in an unhandled exception, and a run in
\* which no word was extracted, or none was new after filtering, ends having
\* processed no word, with only the schema in the SQL file.
C11_RunEndsNormally ==
    /\ pc # "name_error"
    /\ (/\ pc = "finished"
        /\ \/ all_words_from_text = <<>>
           \/ words_to_process_query.v = <<>>)
       => /\ processed = <<>>
          /\ model_calls = 0
          /\ sql_file.lines = <<SqlText(generate_schema_sql) \o <<"\n">>>>

====
